---- MODULE Spec2Model ----
(***************************************************************************)
(* Model of the client-side scanner of ai-trading-assistant                *)
(* (src/unnamed/part_003): the logic-DB load (loadLogicDB), the watchlist  *)
(* controls, the polling timer and scanTick with its atom detection and    *)
(* molecule matching; and of the TradingAssistant object of src/app.js:    *)
(* its WebSocket connection, message handlers, watchlist and log buffer.   *)
(*                                                                         *)
(* A JavaScript string is modelled as a sequence of symbols.  A symbol is  *)
(* one character (" ", ",", "-", a digit, a letter) or, for atom and       *)
(* molecule identifiers, one whole identifier such as "TRG-008".           *)
(***************************************************************************)
EXTENDS Integers, Sequences, FiniteSets

(***************************************************************************)
(* Bounds of the model.                                                    *)
(***************************************************************************)
MaxClock == 1      \* Date.now() ranges over 0..MaxClock
MaxPreds == 2      \* scanning stops growing predictions beyond this length
MaxTicks == 1      \* scanTick invocations in flight at once
MaxLoads == 1      \* loadLogicDB invocations in flight at once
MaxOverlap == 2    \* the same, where slow fetches let the interval overtake a cycle
MaxSocketLogs == 23   \* addLog calls after which the connection takes no further step
MaxClosing == 2    \* replaced sockets whose close event is pending at once
MaxAdds == 503     \* addLog calls after which the log takes no further entry

(***************************************************************************)
(* String helpers: String.prototype.split(','), trim(), toUpperCase(),     *)
(* Array.prototype.includes / filter, parseFloat.                          *)
(***************************************************************************)
RECURSIVE SplitComma(_, _, _)
\* s.split(','): cur is the piece being read, acc the pieces already closed
SplitComma(s, cur, acc) ==
  IF s = <<>> THEN Append(acc, cur)
  ELSE IF Head(s) = "," THEN SplitComma(Tail(s), <<>>, Append(acc, cur))
  ELSE SplitComma(Tail(s), Append(cur, Head(s)), acc)

Split(s) == SplitComma(s, <<>>, <<>>)

RECURSIVE TrimLeft(_)
TrimLeft(s) ==
  IF s # <<>> /\ Head(s) = " " THEN TrimLeft(Tail(s)) ELSE s

RECURSIVE TrimRight(_)
TrimRight(s) ==
  IF s # <<>> /\ s[Len(s)] = " " THEN TrimRight(SubSeq(s, 1, Len(s) - 1)) ELSE s

\* String.prototype.trim
Trim(s) == TrimRight(TrimLeft(s))

UpperChar(c) ==
  CASE c = "a" -> "A"
    [] c = "b" -> "B"
    [] OTHER -> c

\* String.prototype.toUpperCase
ToUpperCase(s) == [i \in 1..Len(s) |-> UpperChar(s[i])]

\* Array.prototype.includes
Includes(arr, x) == \E i \in 1..Len(arr) : arr[i] = x

RECURSIVE FilterIn(_, _)
\* arr.filter(a => other.includes(a))
FilterIn(arr, other) ==
  IF arr = <<>> THEN <<>>
  ELSE IF Includes(other, Head(arr))
       THEN <<Head(arr)>> \o FilterIn(Tail(arr), other)
       ELSE FilterIn(Tail(arr), other)

RECURSIVE FilterNe(_, _)
\* arr.filter(s => s !== x)
FilterNe(arr, x) ==
  IF arr = <<>> THEN <<>>
  ELSE IF Head(arr) # x
       THEN <<Head(arr)>> \o FilterNe(Tail(arr), x)
       ELSE FilterNe(Tail(arr), x)

IsDigit(c) == c \in {"0", "1", "2", "3", "4", "5", "6", "7", "8", "9"}

DigitVal(c) ==
  CASE c = "0" -> 0 [] c = "1" -> 1 [] c = "2" -> 2 [] c = "3" -> 3
    [] c = "4" -> 4 [] c = "5" -> 5 [] c = "6" -> 6 [] c = "7" -> 7
    [] c = "8" -> 8 [] OTHER -> 9

RECURSIVE ParseDigits(_, _, _)
\* the longest digit prefix of s; seen tells whether a digit was read
ParseDigits(s, acc, seen) ==
  IF s # <<>> /\ IsDigit(Head(s))
  THEN ParseDigits(Tail(s), acc * 10 + DigitVal(Head(s)), TRUE)
  ELSE [nan |-> ~seen, val |-> acc]

NaN == [nan |-> TRUE, val |-> 0]

\* parseFloat of a string without a decimal point or exponent: leading
\* white space is skipped, an optional sign is read, then the longest
\* digit prefix; NaN when no digit is read.
ParseFloatStr(s) ==
  LET t == TrimLeft(s)
      neg == t # <<>> /\ Head(t) = "-"
      u == IF t # <<>> /\ Head(t) \in {"-", "+"} THEN Tail(t) ELSE t
      p == ParseDigits(u, 0, FALSE)
  IN  IF p.nan THEN NaN
      ELSE [nan |-> FALSE, val |-> IF neg THEN 0 - p.val ELSE p.val]

(***************************************************************************)
(* Rows of the sheet as the Sheets API returns them: a row is a sequence   *)
(* of cells, trailing empty cells are left out, so r[k] is undefined when  *)
(* k is beyond the row's length.  JavaScript indexes from 0.               *)
(***************************************************************************)
HasCell(r, k) == k + 1 <= Len(r)

Cell(r, k) == r[k + 1]

\* parseFloat(r[4]): parseFloat(undefined) is NaN
ParseFloat(r, k) == IF HasCell(r, k) THEN ParseFloatStr(Cell(r, k)) ELSE NaN

DefaultThreshold == 80

\* parseFloat(r[4]) || 80: NaN and 0 are falsy
OrDefault(p) == IF p.nan \/ p.val = 0 THEN DefaultThreshold ELSE p.val

\* r[3]?.split(',').map(s=>s.trim()) || []
AtomList(r) ==
  IF HasCell(r, 3)
  THEN LET parts == Split(Cell(r, 3))
       IN  [i \in 1..Len(parts) |-> Trim(parts[i])]
  ELSE <<>>

\* molRows.map(r => ({id:r[0], ..., atoms:..., threshold:...}))
MolOfRow(r) ==
  [id |-> Cell(r, 0), atoms |-> AtomList(r), threshold |-> OrDefault(ParseFloat(r, 4))]

MolsOfRows(rows) == [i \in 1..Len(rows) |-> MolOfRow(rows[i])]

\* atomRows.map(r => ({id:r[0], ...}))
AtomsOfRows(rows) == [i \in 1..Len(rows) |-> [id |-> Cell(rows[i], 0)]]

\* the demo data of loadLogicDB's catch branch
DemoAtoms ==
  << [id |-> <<"CTX-001">>], [id |-> <<"STR-003">>],
     [id |-> <<"TRG-003">>], [id |-> <<"TRG-008">>] >>

DemoMolecules ==
  << [id |-> <<"LOGIC-EXP-004">>, atoms |-> << <<"STR-003">>, <<"TRG-008">> >>,
      threshold |-> DefaultThreshold] >>

(***************************************************************************)
(* Inputs: what the sheet, the market-data API and the user can supply.    *)
(***************************************************************************)
Row3(id) == << <<id>>, <<"n">>, <<"c">> >>

AtomRowsFull == << Row3("TRG-008"), Row3("TRG-003"), Row3("STR-003") >>

AtomRowsPartial == << Row3("TRG-008"), Row3("TRG-003") >>

AtomTables == {AtomRowsFull, AtomRowsPartial}

\* cells D (atom list) and E (threshold) of Molecule_DB rows
CellsAll3 == << <<"TRG-008", ",", "TRG-003", ",", "STR-003">>, <<"1", "0", "0">> >>

CellsHalf == << <<"TRG-008", ",", " ", "TRG-003">>, <<"5", "0">> >>

CellsTwice == << <<"TRG-008", ",", "TRG-008", ",", "STR-003">>, <<"6", "0">> >>

CellsUnknown == << <<"TRG-008", ",", "ZZZ-999">>, <<"8", "0">> >>

CellsZero == << <<"TRG-003">>, <<"0">> >>

CellsNegative == << <<"TRG-003">>, <<"-", "1", "0">> >>

CellsAbove == << <<"TRG-003">>, <<"1", "5", "0">> >>

CellsText == << <<"TRG-003">>, <<"a", "b", "c">> >>

\* a row whose cells D..F are blank: the API leaves them out
CellsBlank == << >>

MolTable2(t, u) == << Row3("M1") \o t, Row3("M2") \o u >>

MolCells ==
  { CellsAll3, CellsHalf, CellsTwice, CellsUnknown, CellsZero, CellsNegative,
    CellsAbove, CellsText, CellsBlank }

\* the Molecule_DB sheets the loads are run on: none, one or two rows
AllMolTables ==
  { <<>> }
  \cup { << Row3("M1") \o t >> : t \in MolCells }
  \cup { MolTable2(t, u) : t \in MolCells, u \in MolCells }

\* the Molecule_DB sheets the scanner is run on
MolTables ==
  { <<>>,
    MolTable2(CellsAll3, CellsHalf),
    MolTable2(CellsTwice, CellsUnknown),
    MolTable2(CellsBlank, CellsNegative) }

\* cells D and E of further rows: one atom at 100; the three detectable atoms
\* and one that nothing detects, at 50 and at 100; STR-003 with TRG-003 at 100
CellsOne == << <<"TRG-008">>, <<"1", "0", "0">> >>

CellsBeyond50 ==
  << <<"TRG-008", ",", "TRG-003", ",", "STR-003", ",", "ZZZ-999">>, <<"5", "0">> >>

CellsBeyond100 ==
  << <<"TRG-008", ",", "TRG-003", ",", "STR-003", ",", "ZZZ-999">>, <<"1", "0", "0">> >>

CellsExp004 == << <<"STR-003", ",", "TRG-003">>, <<"1", "0", "0">> >>

\* further Molecule_DB sheets the scanner is run on
ScenarioTables ==
  { << Row3("LOGIC-EXP-004") \o CellsExp004 >>,
    MolTable2(CellsHalf, CellsOne),
    MolTable2(CellsBeyond50, CellsBeyond100) }

\* one 1-minute bar: o open, c close, v volume
Bars ==
  { [o |-> 100, c |-> 105, v |-> 600000], [o |-> 100, c |-> 105, v |-> 100000],
    [o |-> 100, c |-> 105, v |-> 40000], [o |-> 110, c |-> 105, v |-> 600000],
    [o |-> 110, c |-> 105, v |-> 40000] }

\* CFG.PW
CfgPw == <<"2", "0", "2", "5">>

\* what the user can type into #pw-input
PwInputs == { CfgPw, <<"2", "0", "2", "4">>, <<>> }

\* the tickers those inputs name
Tickers == { <<"A">>, <<"B">> }

\* what the user can type into #sym-input
SymInputs == { <<"a">>, <<" ", "b">>, <<"B", " ">>, <<" ">> }

(***************************************************************************)
(* State.                                                                  *)
(***************************************************************************)
VARIABLES
  atoms,        \* global atoms (part_003:15)
  molecules,    \* global molecules
  watchlist,    \* global watchlist
  predictions,  \* global predictions
  scanTimer,    \* global scanTimer: TRUE when an interval is armed, FALSE for null
  intervals,    \* the number of intervals that setInterval armed and clearInterval has not cleared
  modal,        \* #pw-modal is displayed
  loading,      \* loadLogicDB invocations in flight: a awaiting Atom_DB, m awaiting Molecule_DB
  loadMsg,      \* outcome reported by the last finished loadLogicDB
  ticks,        \* scanTick invocations in flight, each awaiting getAlpacaBar
  now,          \* the value Date.now() returned last
  scan,         \* locals of the loop body scanTick ran last: sym, bar, detected, matches
  app           \* the TradingAssistant object of src/app.js, as a record of its fields

vars ==
  << atoms, molecules, watchlist, predictions, scanTimer, intervals, modal, loading,
     loadMsg, ticks, now, scan, app >>

NoBar == [o |-> 0, c |-> 0, v |-> 0]

NoScan == [on |-> FALSE, sym |-> <<>>, bar |-> NoBar, detected |-> <<>>, fired |-> <<>>]

(***************************************************************************)
(* The TradingAssistant object (src/app.js).  Beside the fields of the     *)
(* class the record holds what the browser keeps for it: closing, the      *)
(* sockets it replaced whose close event is still to come; timers, the     *)
(* reconnect timeouts pending; pwInput and tickerInput, the values of the  *)
(* two inputs; section, the section shown; sent, the type of the message   *)
(* the last step sent; logged, the number of addLog calls so far, which    *)
(* numbers the entries.                                                    *)
(***************************************************************************)
MaxReconnectAttempts == 5

MaxLogEntries == 500

\* the constructor's assignments, and showSection('dashboard') of the page script
NewApp ==
  [ websocket |-> "null", isConnected |-> FALSE, reconnectAttempts |-> 0,
    isScanning |-> FALSE, watchlist |-> <<>>, atomsDetected |-> 0,
    moleculesTriggered |-> 0, systemInitialized |-> FALSE, logBuffer |-> <<>>,
    closing |-> 0, timers |-> 0, pwInput |-> "", tickerInput |-> <<>>,
    section |-> "dashboard", sent |-> "none", handled |-> "none",
    logged |-> 0 ]

\* keeping the oldest entries: slice(1)
LimitOldest(buf) ==
  IF Len(buf) > MaxLogEntries THEN SubSeq(buf, 2, Len(buf)) ELSE buf

\* if (logBuffer.length > maxLogEntries) logBuffer = logBuffer.slice(0, maxLogEntries)
Limit(buf) ==
  IF Len(buf) > MaxLogEntries THEN SubSeq(buf, 1, MaxLogEntries) ELSE buf

\* addLog(message, type): the entry is unshifted, then the buffer is limited.
\* An entry is held as the number of the call that made it; its timestamp,
\* text and type, which no code reads back but the display, are left out.
AddLog(a, message, type) ==
  LET logEntry == [n |-> a.logged + 1]
  IN  [a EXCEPT !.logBuffer = Limit(<<logEntry>> \o a.logBuffer), !.logged = @ + 1]

\* the object after its constructor ran init(): loadSettings logs when settings
\* were saved, then this.showSection, which the class does not define, throws
\* and the catch logs the error; startStatusUpdates is not reached
Constructed(saved) ==
  LET a == IF saved THEN AddLog(NewApp, "settings loaded", "info") ELSE NewApp
  IN  AddLog(a, "init error", "error")

Init ==
  /\ atoms = <<>>
  /\ molecules = <<>>
  /\ watchlist = <<>>
  /\ predictions = <<>>
  /\ scanTimer = FALSE
  /\ intervals = 0
  /\ modal = TRUE
  /\ loading = [a |-> 0, m |-> 0]
  /\ loadMsg = "none"
  /\ ticks = <<>>
  /\ now = 0
  /\ scan = NoScan
  /\ app = NewApp

(***************************************************************************)
(* loadLogicDB (part_003:67-103).                                          *)
(***************************************************************************)
\* loadLogicDB() is called: it runs to its first await, sheetsRead('Atom_DB')
CallLoad ==
  /\ loading.a + loading.m < MaxLoads
  /\ loading' = [loading EXCEPT !.a = @ + 1]

\* the Atom_DB read resolves: atoms is assigned, then Molecule_DB is awaited
AtomRowsArrive(rows) ==
  /\ loading.a > 0
  /\ atoms' = AtomsOfRows(rows)
  /\ loading' = [a |-> loading.a - 1, m |-> loading.m + 1]
  /\ scan' = NoScan
  /\ UNCHANGED << app, molecules, watchlist, predictions, scanTimer, intervals, modal, loadMsg, ticks, now >>

\* the Molecule_DB read resolves: molecules is assigned and the load reports success
MolRowsArrive(rows) ==
  /\ loading.m > 0
  /\ molecules' = MolsOfRows(rows)
  /\ loading' = [loading EXCEPT !.m = @ - 1]
  /\ loadMsg' = "loaded"
  /\ scan' = NoScan
  /\ UNCHANGED << app, atoms, watchlist, predictions, scanTimer, intervals, modal, ticks, now >>

\* either read throws (fetch rejected or !r.ok): the catch branch installs the demo data
LoadFails(stage) ==
  /\ loading[stage] > 0
  /\ atoms' = DemoAtoms
  /\ molecules' = DemoMolecules
  /\ loading' = [loading EXCEPT ![stage] = @ - 1]
  /\ loadMsg' = "demo"
  /\ scan' = NoScan
  /\ UNCHANGED << app, watchlist, predictions, scanTimer, intervals, modal, ticks, now >>

(***************************************************************************)
(* Login (part_003:30-37), init (293-313) and save-set (224-237).          *)
(***************************************************************************)
\* #pw-btn clicked: the right password hides the modal and runs init(), which
\* loads the DB; a wrong one only shows a toast
Login(pw) ==
  /\ modal
  /\ IF pw = CfgPw
     THEN /\ modal' = FALSE
          /\ CallLoad
     ELSE UNCHANGED << modal, loading >>
  /\ scan' = NoScan
  /\ UNCHANGED << app, atoms, molecules, watchlist, predictions, scanTimer, intervals, loadMsg, ticks, now >>

\* #save-set clicked; both is whether SHEET_ID and SHEET_API are non-empty
SaveSet(both) ==
  /\ IF both THEN CallLoad ELSE UNCHANGED loading
  /\ scan' = NoScan
  /\ UNCHANGED << app, atoms, molecules, watchlist, predictions, scanTimer, intervals, modal, loadMsg, ticks, now >>

(***************************************************************************)
(* Scanner controls (part_003:182-221).                                    *)
(***************************************************************************)
WatchLimit == 10

\* push onto the array object that is the current watchlist: an invocation of
\* scanTick whose for-of loop iterates that same object sees the new element
PushLive(t, val) == IF t.live THEN [t EXCEPT !.arr = Append(@, val)] ELSE t

\* #add-sym clicked with raw in #sym-input
AddSym(raw) ==
  LET val == Trim(ToUpperCase(raw))
  IN  /\ IF val # <<>> /\ ~Includes(watchlist, val) /\ Len(watchlist) < WatchLimit
         THEN /\ watchlist' = Append(watchlist, val)
              /\ ticks' = [k \in 1..Len(ticks) |-> PushLive(ticks[k], val)]
         ELSE UNCHANGED << watchlist, ticks >>
      /\ scan' = NoScan
      /\ UNCHANGED << app, atoms, molecules, predictions, scanTimer, intervals, modal, loading, loadMsg, now >>

\* removeSym(sym): watchlist becomes a new array; loops in flight keep the old one
RemoveSym(sym) ==
  /\ Includes(watchlist, sym)
  /\ watchlist' = FilterNe(watchlist, sym)
  /\ ticks' = [k \in 1..Len(ticks) |-> [ticks[k] EXCEPT !.live = FALSE]]
  /\ scan' = NoScan
  /\ UNCHANGED << app, atoms, molecules, predictions, scanTimer, intervals, modal, loading, loadMsg, now >>

\* #start-scan without the test of scanTimer: every click on a watchlist that
\* is not empty arms an interval and overwrites the handle of the one before
StartScanAgain ==
  /\ IF watchlist = <<>>
     THEN UNCHANGED << scanTimer, intervals >>
     ELSE /\ scanTimer' = TRUE
          /\ intervals' = intervals + 1
  /\ scan' = NoScan
  /\ UNCHANGED << app, atoms, molecules, watchlist, predictions, modal, loading, loadMsg, ticks, now >>

\* #start-scan clicked
StartScan ==
  /\ IF watchlist = <<>> \/ scanTimer
     THEN UNCHANGED << scanTimer, intervals >>
     ELSE /\ scanTimer' = TRUE
          /\ intervals' = intervals + 1
  /\ scan' = NoScan
  /\ UNCHANGED << app, atoms, molecules, watchlist, predictions, modal, loading, loadMsg, ticks, now >>

\* #stop-scan clicked
StopScan ==
  /\ intervals' = IF scanTimer THEN intervals - 1 ELSE intervals
  /\ scanTimer' = FALSE
  /\ scan' = NoScan
  /\ UNCHANGED << app, atoms, molecules, watchlist, predictions, modal, loading, loadMsg, ticks, now >>

(***************************************************************************)
(* scanTick (part_003:144-179).                                            *)
(***************************************************************************)
\* the interval fires while fewer than limit invocations are in flight:
\* scanTick() returns at once on an empty watchlist, else it enters the loop
\* and awaits getAlpacaBar for the first symbol
ScanTickCalled(limit) ==
  /\ intervals > 0
  /\ Len(ticks) < limit
  /\ IF watchlist = <<>>
     THEN UNCHANGED ticks
     ELSE ticks' = Append(ticks, [arr |-> watchlist, i |-> 1, live |-> TRUE])
  /\ scan' = NoScan
  /\ UNCHANGED << app, atoms, molecules, watchlist, predictions, scanTimer, intervals, modal, loading, loadMsg, now >>

\* setInterval(scanTick, 60000), each cycle over before the next interval
TimerFires == ScanTickCalled(MaxTicks)

\* the interval fires whether or not the cycle before it is over
TimerOvertakes == ScanTickCalled(MaxOverlap)

\* a detected list declared once, outside the loop over the watchlist
NewDetectedCarried == scan.detected

\* const detected = []
NewDetected == <<>>

PushIf(cond, arr, x) == IF cond THEN Append(arr, x) ELSE arr

\* the three tests run twice over on the same list
DetectTwice(bar, rnd) ==
  LET d1 == PushIf(bar.c > bar.o, NewDetected, <<"TRG-008">>)
      d2 == PushIf(bar.v > 50000, d1, <<"TRG-003">>)
      d3 == PushIf(rnd, d2, <<"STR-003">>)
      d4 == PushIf(bar.c > bar.o, d3, <<"TRG-008">>)
      d5 == PushIf(bar.v > 50000, d4, <<"TRG-003">>)
  IN  PushIf(rnd, d5, <<"STR-003">>)

\* the atom detection of one bar; rnd is Math.random() < 0.3
Detect(bar, rnd) ==
  LET d1 == PushIf(bar.c > bar.o, NewDetected, <<"TRG-008">>)
      d2 == PushIf(bar.v > 50000, d1, <<"TRG-003">>)
  IN  PushIf(rnd, d2, <<"STR-003">>)

\* a match that also counts the atoms of the evaluation before
MatchWithKept(mol, detected) == FilterIn(mol.atoms, detected \o scan.detected)

\* const match = mol.atoms.filter(a=>detected.includes(a))
Match(mol, detected) == FilterIn(mol.atoms, detected)

\* any matched atom triggers
TriggersOnAny(mol, detected) == Len(Match(mol, detected)) > 0

\* the comparison without the length of the atom list
TriggersNoLength(mol, detected) ==
  Len(Match(mol, detected)) * 100 >= mol.threshold

\* the comparison with > in place of >=
TriggersStrict(mol, detected) ==
  Len(Match(mol, detected)) * 100 > Len(mol.atoms) * mol.threshold

\* match.length >= mol.atoms.length * mol.threshold/100, both sides times 100
Triggers(mol, detected) ==
  Len(Match(mol, detected)) * 100 >= Len(mol.atoms) * mol.threshold

\* the molecules that trigger, sorted by matched share, the largest first
TriggeredByRatio(mols, detected, from) ==
  LET S == { k \in from..Len(mols) : Triggers(mols[k], detected) }
      Before(a, b) ==
        LET sa == Len(Match(mols[a], detected)) * Len(mols[b].atoms)
            sb == Len(Match(mols[b], detected)) * Len(mols[a].atoms)
        IN  sa > sb \/ (sa = sb /\ a < b)
  IN  IF S = {} THEN <<>>
      ELSE CHOOSE q \in [1..Cardinality(S) -> S] :
             \A i, j \in 1..Cardinality(S) : i < j => Before(q[i], q[j])

RECURSIVE TriggeredFrom(_, _, _)
\* the indices k >= from of the molecules that trigger, in forEach order
TriggeredFrom(mols, detected, from) ==
  IF from > Len(mols) THEN <<>>
  ELSE IF Triggers(mols[from], detected)
       THEN <<from>> \o TriggeredFrom(mols, detected, from + 1)
       ELSE TriggeredFrom(mols, detected, from + 1)

\* `P${Date.now()}`
PredId(t) == <<"P", t>>

\* {id:`P${Date.now()}`,ticker:sym,molecule:mol.id,entry:bar.c,time:new Date()}
Pred(sym, mol, bar, t) ==
  [id |-> PredId(t), ticker |-> sym, molecule |-> mol.id, entry |-> bar.c, time |-> t]

\* predictions.unshift(pred): the newest record first
PushFront(preds, new) == new \o preds

\* predictions.push(pred), for the records of one loop body in order
PushAll(preds, new) == preds \o new

\* Date.now() as the k-th callback of molecules.forEach reads it: a read
\* returns the value of the read before it or a later one.  The millisecond
\* changes just before callback tickAt (0: not during this loop body).
ReadClock(k, tickAt) ==
  IF tickAt # 0 /\ k >= tickAt /\ now < MaxClock THEN now + 1 ELSE now

\* the tick after its loop body: the next symbol is awaited, or the loop ends
Advance(k) ==
  IF ticks[k].i < Len(ticks[k].arr)
  THEN [ticks EXCEPT ![k].i = @ + 1]
  ELSE SubSeq(ticks, 1, k - 1) \o SubSeq(ticks, k + 1, Len(ticks))

\* getAlpacaBar resolved with null or undefined (fetch failed, or no bar): continue
BarMissing(k) ==
  /\ k \in 1..Len(ticks)
  /\ ticks' = Advance(k)
  /\ scan' = NoScan
  /\ UNCHANGED << app, atoms, molecules, watchlist, predictions, scanTimer, intervals, modal, loading, loadMsg, now >>

\* getAlpacaBar resolved with a bar: the loop body runs to the next await
BarArrives(k, bar, rnd) ==
  /\ k \in 1..Len(ticks)
  /\ \E tickAt \in 0..Len(molecules) :
       LET sym == ticks[k].arr[ticks[k].i]
           detected == Detect(bar, rnd)
           trig == TriggeredFrom(molecules, detected, 1)
           new == [j \in 1..Len(trig) |->
                     Pred(sym, molecules[trig[j]], bar, ReadClock(trig[j], tickAt))]
       IN  /\ Len(predictions) + Len(new) <= MaxPreds
           /\ predictions' = PushAll(predictions, new)
           /\ scan' = [on |-> TRUE, sym |-> sym, bar |-> bar, detected |-> detected,
                       fired |-> [j \in 1..Len(trig) |->
                                    [mol |-> trig[j],
                                     match |-> Match(molecules[trig[j]], detected)]]]
           /\ now' = ReadClock(Len(molecules), tickAt)
  /\ ticks' = Advance(k)
  /\ UNCHANGED << app, atoms, molecules, watchlist, scanTimer, intervals, modal, loading, loadMsg >>

\* the login, the settings form and the load
LoadNext ==
  \/ \E pw \in PwInputs : Login(pw)
  \/ \E both \in BOOLEAN : SaveSet(both)
  \/ \E rows \in AtomTables : AtomRowsArrive(rows)
  \/ \E rows \in AllMolTables : MolRowsArrive(rows)
  \/ \E stage \in {"a", "m"} : LoadFails(stage)

\* the watchlist, the timer and scanTick
ScanNext ==
  \/ \E raw \in SymInputs : AddSym(raw)
  \/ \E sym \in Tickers : RemoveSym(sym)
  \/ StartScan
  \/ StopScan
  \/ TimerFires
  \/ \E k \in 1..MaxTicks : BarMissing(k)
  \/ \E k \in 1..MaxTicks, bar \in Bars, rnd \in BOOLEAN : BarArrives(k, bar, rnd)

\* The page from its construction on, as far as the registry goes:
\* login, settings and loads.
SpecLoad == Init /\ [][LoadNext]_vars

\* what a finished loadLogicDB leaves in atoms and molecules, with its report
Registries ==
  { [atoms |-> AtomsOfRows(AtomRowsFull), molecules |-> MolsOfRows(t), msg |-> "loaded"] :
      t \in MolTables }
  \cup { [atoms |-> DemoAtoms, molecules |-> DemoMolecules, msg |-> "demo"] }

\* the page after init(): the modal is hidden and the load has finished
InitScan ==
  /\ \E reg \in Registries :
       /\ atoms = reg.atoms
       /\ molecules = reg.molecules
       /\ loadMsg = reg.msg
  /\ watchlist = <<>>
  /\ predictions = <<>>
  /\ scanTimer = FALSE
  /\ intervals = 0
  /\ modal = FALSE
  /\ loading = [a |-> 0, m |-> 0]
  /\ ticks = <<>>
  /\ now = 0
  /\ scan = NoScan
  /\ app = NewApp

\* The scanner over a loaded registry.
Spec == InitScan /\ [][ScanNext]_vars

\* the page after init() on one of the further sheets
InitScenario ==
  /\ atoms = AtomsOfRows(AtomRowsFull)
  /\ \E t \in ScenarioTables : molecules = MolsOfRows(t)
  /\ loadMsg = "loaded"
  /\ watchlist = <<>>
  /\ predictions = <<>>
  /\ scanTimer = FALSE
  /\ intervals = 0
  /\ modal = FALSE
  /\ loading = [a |-> 0, m |-> 0]
  /\ ticks = <<>>
  /\ now = 0
  /\ scan = NoScan
  /\ app = NewApp

\* The scanner over those sheets.
SpecScenario == InitScenario /\ [][ScanNext]_vars

\* the page after init() on a sheet without molecule rows
InitOverlap ==
  /\ atoms = AtomsOfRows(AtomRowsFull)
  /\ molecules = <<>>
  /\ loadMsg = "loaded"
  /\ watchlist = <<>>
  /\ predictions = <<>>
  /\ scanTimer = FALSE
  /\ intervals = 0
  /\ modal = FALSE
  /\ loading = [a |-> 0, m |-> 0]
  /\ ticks = <<>>
  /\ now = 0
  /\ scan = NoScan
  /\ app = NewApp

\* the watchlist, the timer and scanTick when fetches outlast the interval
OverlapNext ==
  \/ \E raw \in SymInputs : AddSym(raw)
  \/ \E sym \in Tickers : RemoveSym(sym)
  \/ StartScan
  \/ StopScan
  \/ TimerOvertakes
  \/ \E k \in 1..MaxOverlap : BarMissing(k)
  \/ \E k \in 1..MaxOverlap, bar \in Bars, rnd \in BOOLEAN : BarArrives(k, bar, rnd)

\* The scanner with cycles that may overlap.
SpecOverlap == InitOverlap /\ [][OverlapNext]_vars

(***************************************************************************)
(* The WebSocket connection of src/app.js (183-251).                       *)
(***************************************************************************)
\* the variables of the page script of part_003, which app.js leaves alone
scannerVars ==
  << atoms, molecules, watchlist, predictions, scanTimer, intervals, modal, loading,
     loadMsg, ticks, now, scan >>

\* the object as a handler finds it: nothing sent yet by this step
Step(a) == [a EXCEPT !.sent = "none", !.handled = "none"]

\* readyState CONNECTING or OPEN: close() has an effect and a close event follows
SocketLive(a) == a.websocket \in {"CONNECTING", "OPEN"}

\* connectWebSocket(): the socket held is closed and a new one replaces it
ConnectWebSocket(a) ==
  LET b == AddLog(a, "connecting", "info")
  IN  [b EXCEPT !.websocket = "CONNECTING",
                !.closing = IF SocketLive(a) THEN @ + 1 ELSE @]

\* sendWebSocketMessage(message)
SendWebSocketMessage(a, type) ==
  IF a.websocket = "OPEN" THEN [a EXCEPT !.sent = type]
  ELSE AddLog(a, "not connected", "error")

\* websocket.onopen
OnOpen(a) ==
  LET b == AddLog([a EXCEPT !.isConnected = TRUE, !.reconnectAttempts = 0],
                  "connected", "success")
  IN  SendWebSocketMessage(b, "get_system_status")

\* websocket.onerror
OnError(a) == AddLog(a, "socket error", "error")

\* an onclose that reconnects whatever the count
AlwaysReconnect(a) == TRUE

\* this.reconnectAttempts < this.maxReconnectAttempts
MayReconnect(a) == a.reconnectAttempts < MaxReconnectAttempts

\* websocket.onclose
OnClose(a) ==
  LET b == AddLog([a EXCEPT !.isConnected = FALSE], "closed", "warning")
  IN  IF MayReconnect(b)
      THEN [b EXCEPT !.reconnectAttempts = @ + 1, !.timers = @ + 1]
      ELSE b

\* the error event, when there is one, then the close event of a socket
ErrorAndClose(a, err) == OnClose(IF err THEN OnError(a) ELSE a)

\* #connect-ws-btn clicked
ConnectClicked ==
  /\ app.closing < MaxClosing
  /\ app' = ConnectWebSocket(Step(app))
  /\ UNCHANGED scannerVars

\* the connection of the socket held is established
SocketOpens ==
  /\ app.websocket = "CONNECTING"
  /\ app' = OnOpen([Step(app) EXCEPT !.websocket = "OPEN"])
  /\ UNCHANGED scannerVars

\* the socket held fails to connect (always with an error event), or the
\* server or the network closes it once open
SocketLost(err) ==
  /\ SocketLive(app)
  /\ app.websocket = "CONNECTING" => err
  /\ app' = ErrorAndClose([Step(app) EXCEPT !.websocket = "CLOSED"], err)
  /\ UNCHANGED scannerVars

\* the close event of a socket that connectWebSocket closed and replaced
ReplacedSocketCloses(err) ==
  /\ app.closing > 0
  /\ app' = ErrorAndClose([Step(app) EXCEPT !.closing = @ - 1], err)
  /\ UNCHANGED scannerVars

\* a reconnect timeout set by onclose fires
ReconnectTimerFires ==
  /\ app.timers > 0
  /\ app.closing < MaxClosing
  /\ app' = ConnectWebSocket(AddLog([Step(app) EXCEPT !.timers = @ - 1], "reconnecting", "info"))
  /\ UNCHANGED scannerVars

\* password === 'admin123' || password === 'trading2025'
AcceptedPasswords == { "admin123", "trading2025" }

\* what the user can type into #pw-input of app.js
AppPwInputs == { "2025", "admin123", "0000" }

\* handleLogin(): with an accepted password this.showSection('main'), which
\* the class does not define, throws before the log entry and the timeout
\* for connectWebSocket, and the catch logs the error; with another
\* password an alert is shown and the failure is logged
HandleLogin(a) ==
  IF a.pwInput \in AcceptedPasswords
  THEN AddLog(a, "login error", "error")
  ELSE AddLog(a, "login failed", "error")

\* the user fills #pw-input
TypePassword(pw) ==
  /\ app' = [Step(app) EXCEPT !.pwInput = pw]
  /\ UNCHANGED scannerVars

\* #pw-btn clicked, or Enter in #pw-input
LoginClicked ==
  /\ app' = HandleLogin(Step(app))
  /\ UNCHANGED scannerVars

\* the page of app.js after the constructor, no settings saved
InitSocket ==
  /\ atoms = <<>>
  /\ molecules = <<>>
  /\ watchlist = <<>>
  /\ predictions = <<>>
  /\ scanTimer = FALSE
  /\ intervals = 0
  /\ modal = TRUE
  /\ loading = [a |-> 0, m |-> 0]
  /\ loadMsg = "none"
  /\ ticks = <<>>
  /\ now = 0
  /\ scan = NoScan
  /\ app = Constructed(FALSE)

\* the connection: the button, the events of the sockets and the timeouts
SocketNext ==
  \/ \E pw \in AppPwInputs : TypePassword(pw)
  \/ app.logged < MaxSocketLogs /\ LoginClicked
  \/ app.logged < MaxSocketLogs /\ ConnectClicked
  \/ app.logged < MaxSocketLogs /\ SocketOpens
  \/ \E err \in BOOLEAN : app.logged < MaxSocketLogs /\ SocketLost(err)
  \/ \E err \in BOOLEAN : app.logged < MaxSocketLogs /\ ReplacedSocketCloses(err)
  \/ app.logged < MaxSocketLogs /\ ReconnectTimerFires

\* The connection of the TradingAssistant.
SpecSocket == InitSocket /\ [][SocketNext]_vars

(***************************************************************************)
(* The log of src/app.js (971-990, 1032-1062).                             *)
(***************************************************************************)
\* clearLogs(): the buffer is emptied, then the clearing is logged
ClearLogs(a) == AddLog([a EXCEPT !.logBuffer = <<>>], "logs cleared", "info")

\* exportLogs(): the download is made, then logged; logBuffer is only read
ExportLogs(a) == AddLog(a, "logs exported", "success")

\* window.clearLogs(), confirmed
ClearLogsClicked ==
  /\ app' = ClearLogs(Step(app))
  /\ UNCHANGED scannerVars

\* window.exportLogs()
ExportLogsClicked ==
  /\ app' = ExportLogs(Step(app))
  /\ UNCHANGED scannerVars

\* the page of app.js after the constructor, with or without saved settings
InitLog ==
  /\ atoms = <<>>
  /\ molecules = <<>>
  /\ watchlist = <<>>
  /\ predictions = <<>>
  /\ scanTimer = FALSE
  /\ intervals = 0
  /\ modal = TRUE
  /\ loading = [a |-> 0, m |-> 0]
  /\ loadMsg = "none"
  /\ ticks = <<>>
  /\ now = 0
  /\ scan = NoScan
  /\ \E saved \in BOOLEAN : app = Constructed(saved)

\* the two handlers that do nothing but log
LogNext ==
  \/ app.logged < MaxAdds /\ ClearLogsClicked
  \/ app.logged < MaxAdds /\ ExportLogsClicked

\* The log buffer of the TradingAssistant.
SpecLog == InitLog /\ [][LogNext]_vars

(***************************************************************************)
(* The watchlist, the scanner buttons and the server's messages of         *)
(* src/app.js (253-495, 623-721).  sent is the type of the message that    *)
(* the step sent, handled the type of the message that the step handled.   *)
(***************************************************************************)
MaxClientLogs == 8
MaxSignals == 2

\* Array.prototype.indexOf, counted from 1: 0 when x is absent
IndexOf(arr, x) ==
  IF Includes(arr, x)
  THEN CHOOSE i \in 1..Len(arr) : arr[i] = x /\ \A j \in 1..(i - 1) : arr[j] # x
  ELSE 0

\* arr.splice(index, 1), index counted from 1
Splice(arr, index) == SubSeq(arr, 1, index - 1) \o SubSeq(arr, index + 1, Len(arr))

\* addTicker()
AddTicker(a) ==
  LET ticker == ToUpperCase(Trim(a.tickerInput))
  IN  IF ticker = <<>> THEN AddLog(a, "enter a symbol", "warning")
      ELSE IF Includes(a.watchlist, ticker) THEN AddLog(a, "already added", "warning")
      ELSE AddLog([a EXCEPT !.watchlist = Append(@, ticker), !.tickerInput = <<>>],
                  "added", "success")

\* removeTicker(ticker)
RemoveTicker(a, ticker) ==
  LET index == IndexOf(a.watchlist, ticker)
  IN  IF index > 0
      THEN AddLog([a EXCEPT !.watchlist = Splice(@, index)], "removed", "info")
      ELSE a

\* startScanner() without the check of systemInitialized
StartScannerUninitialized(a) ==
  IF ~a.isConnected THEN AddLog(a, "not connected", "error")
  ELSE IF a.watchlist = <<>> THEN AddLog(a, "add a ticker", "warning")
  ELSE LET b == SendWebSocketMessage(AddLog(a, "scanner start", "info"), "start_scanner")
       IN  IF b.sent = "start_scanner" THEN b ELSE AddLog(b, "request failed", "error")

\* startScanner()
StartScanner(a) ==
  IF ~a.isConnected THEN AddLog(a, "not connected", "error")
  ELSE IF ~a.systemInitialized THEN AddLog(a, "not initialized", "error")
  ELSE IF a.watchlist = <<>> THEN AddLog(a, "add a ticker", "warning")
  ELSE LET b == SendWebSocketMessage(AddLog(a, "scanner start", "info"), "start_scanner")
       IN  IF b.sent = "start_scanner" THEN b ELSE AddLog(b, "request failed", "error")

\* stopScanner()
StopScanner(a) ==
  IF ~a.isConnected THEN AddLog(a, "not connected", "error")
  ELSE LET b == SendWebSocketMessage(AddLog(a, "scanner stop", "info"), "stop_scanner")
       IN  IF b.sent = "stop_scanner" THEN b ELSE AddLog(b, "request failed", "error")

\* handleSystemStatus(data): without data.system and data.status the first
\* read of status throws, and the catch of the handler only writes the console
HandleSystemStatus(a, data) ==
  IF data.hasStatus
  THEN [a EXCEPT !.systemInitialized = data.is_initialized,
                 !.isScanning = data.is_scanning]
  ELSE a

\* handleAtomSignal(data)
HandleAtomSignal(a, data) ==
  AddLog([a EXCEPT !.atomsDetected = @ + 1], "atom signal", "atom")

\* handleMoleculeSignal(data)
HandleMoleculeSignal(a, data) ==
  AddLog([a EXCEPT !.moleculesTriggered = @ + 1], "molecule signal", "molecule")

\* handleSystemInitialized(data), data.results absent
HandleSystemInitialized(a, data) ==
  AddLog([a EXCEPT !.systemInitialized = data.success],
         "system initialized", IF data.success THEN "success" ELSE "error")

\* handleScannerStarted(data): data.tickers || []
HandleScannerStarted(a, data) ==
  AddLog([a EXCEPT !.isScanning = TRUE,
                   !.watchlist = IF data.hasTickers THEN data.tickers ELSE <<>>],
         "scanner started", "success")

\* handleScannerStopped(data)
HandleScannerStopped(a, data) ==
  AddLog([a EXCEPT !.isScanning = FALSE], "scanner stopped", "warning")

\* handleConnectionTestResult(data), data.results absent
HandleConnectionTestResult(a, data) == AddLog(a, "connection test result", "info")

\* handleAnalysisResult(data): without data.result the read of result.success
\* throws, and the catch of the handler only writes the console
HandleAnalysisResult(a, data) ==
  IF data.hasResult
  THEN AddLog(a, "analysis", IF data.success THEN "success" ELSE "error")
  ELSE a

\* the default branch, were it to report the message in the log
HandleDefaultLogged(a, data) == AddLog(a, "unknown message", "warning")

\* the default branch of the switch: the console only
HandleDefault(a, data) == a

\* the types that the switch of handleWebSocketMessage names
KnownTypes ==
  { "system_status", "atom_signal", "molecule_signal", "system_initialized",
    "scanner_started", "scanner_stopped", "connection_test_result",
    "analysis_result", "error" }

\* handleWebSocketMessage(data), data an object
HandleWebSocketMessage(a, data) ==
  LET messageType == data.type
      b == [a EXCEPT !.handled = messageType]
  IN  CASE messageType = "system_status" -> HandleSystemStatus(b, data)
        [] messageType = "atom_signal" -> HandleAtomSignal(b, data)
        [] messageType = "molecule_signal" -> HandleMoleculeSignal(b, data)
        [] messageType = "system_initialized" -> HandleSystemInitialized(b, data)
        [] messageType = "scanner_started" -> HandleScannerStarted(b, data)
        [] messageType = "scanner_stopped" -> HandleScannerStopped(b, data)
        [] messageType = "connection_test_result" -> HandleConnectionTestResult(b, data)
        [] messageType = "analysis_result" -> HandleAnalysisResult(b, data)
        [] messageType = "error" -> AddLog(b, "server error", "error")
        [] OTHER -> HandleDefault(b, data)

\* the ticker lists that a scanner_started message of the server carries
ServerTickerLists ==
  { <<>>, << <<"A">> >>, << <<"B">>, <<"A">> >>, << <<"A">>, <<"A">> >> }

\* the messages of the server that parse to an object; "heartbeat" is a type
\* that the client does not know, "undefined" stands for an object without type
ServerMessages ==
  { [type |-> t] : t \in { "atom_signal", "molecule_signal", "scanner_stopped",
                           "connection_test_result", "error", "heartbeat",
                           "undefined" } }
  \cup { [type |-> "system_status", hasStatus |-> TRUE,
          is_initialized |-> i, is_scanning |-> s] : i, s \in BOOLEAN }
  \cup { [type |-> "system_status", hasStatus |-> FALSE] }
  \cup { [type |-> "system_initialized", success |-> b] : b \in BOOLEAN }
  \cup { [type |-> "scanner_started", hasTickers |-> TRUE, tickers |-> l] :
           l \in ServerTickerLists }
  \cup { [type |-> "scanner_started", hasTickers |-> FALSE] }
  \cup { [type |-> "analysis_result", hasResult |-> TRUE, success |-> b] : b \in BOOLEAN }
  \cup { [type |-> "analysis_result", hasResult |-> FALSE] }

\* onmessage of the open socket, the payload an object
MessageArrives(data) ==
  /\ app.websocket = "OPEN"
  /\ data.type = "atom_signal" => app.atomsDetected < MaxSignals
  /\ data.type = "molecule_signal" => app.moleculesTriggered < MaxSignals
  /\ app' = HandleWebSocketMessage(Step(app), data)
  /\ UNCHANGED scannerVars

\* onmessage of the open socket, the payload the JSON text null: the read of
\* data.type throws and the catch of handleWebSocketMessage logs the error
NullMessageArrives ==
  /\ app.websocket = "OPEN"
  /\ app' = AddLog([Step(app) EXCEPT !.handled = "null"], "message error", "error")
  /\ UNCHANGED scannerVars

\* the user types into #ticker-input
TypeTicker(raw) ==
  /\ app' = [Step(app) EXCEPT !.tickerInput = raw]
  /\ UNCHANGED scannerVars

\* #add-ticker-btn clicked, or Enter in #ticker-input
AddTickerClicked ==
  /\ app' = AddTicker(Step(app))
  /\ UNCHANGED scannerVars

\* the remove button that updateWatchlist rendered for a ticker is clicked
RemoveTickerClicked(ticker) ==
  /\ Includes(app.watchlist, ticker)
  /\ app' = RemoveTicker(Step(app), ticker)
  /\ UNCHANGED scannerVars

\* #start-scanner-btn clicked
StartScannerClicked ==
  /\ app' = StartScanner(Step(app))
  /\ UNCHANGED scannerVars

\* #stop-scanner-btn clicked
StopScannerClicked ==
  /\ app' = StopScanner(Step(app))
  /\ UNCHANGED scannerVars

\* the user, the socket and the server
ClientNext ==
  \/ \E raw \in SymInputs : TypeTicker(raw)
  \/ app.logged < MaxClientLogs /\ AddTickerClicked
  \/ \E ticker \in { <<"A">>, <<"B">> } :
       app.logged < MaxClientLogs /\ RemoveTickerClicked(ticker)
  \/ app.logged < MaxClientLogs /\ StartScannerClicked
  \/ app.logged < MaxClientLogs /\ StopScannerClicked
  \/ app.logged < MaxClientLogs /\ ConnectClicked
  \/ app.logged < MaxClientLogs /\ SocketOpens
  \/ \E err \in BOOLEAN : app.logged < MaxClientLogs /\ SocketLost(err)
  \/ \E err \in BOOLEAN : app.logged < MaxClientLogs /\ ReplacedSocketCloses(err)
  \/ app.logged < MaxClientLogs /\ ReconnectTimerFires
  \/ \E data \in ServerMessages : app.logged < MaxClientLogs /\ MessageArrives(data)
  \/ app.logged < MaxClientLogs /\ NullMessageArrives

\* The TradingAssistant of app.js with its server.
SpecClient == InitSocket /\ [][ClientNext]_vars

(***************************************************************************)
(* Vocabulary of the claims.                                               *)
(***************************************************************************)
SetOf(arr) == { arr[i] : i \in 1..Len(arr) }

\* requiredAtoms(m) as a set, and the part of it that was detected
Required(mol) == SetOf(mol.atoms)

Present(mol, detected) == Required(mol) \cap SetOf(detected)

\* ratio >= threshold with ratio = |present| / |required| * 100; the ratio
\* of an empty required set is not a number and reaches no threshold
RatioReached(mol, detected) ==
  /\ Required(mol) # {}
  /\ Cardinality(Present(mol, detected)) * 100 >= Cardinality(Required(mol)) * mol.threshold

\* the molecules, by position in the registry, that the last loop body triggered
FiredMols == { scan.fired[j].mol : j \in 1..Len(scan.fired) }

MolIndex == 1..Len(molecules)

\* C1: for every molecule (with an atom list that is not empty) and every
\* detected set of one loop body, the molecule triggers if and only if
\* |present| / |required| * 100 reaches its threshold, the required atoms
\* counted as a set.
C1_TriggersIffSetRatio ==
  scan.on =>
    \A k \in MolIndex :
      molecules[k].atoms # <<>>
        => ((k \in FiredMols) <=> RatioReached(molecules[k], scan.detected))

\* C2: evaluation is deterministic: two loop bodies run one after the other
\* on equal bars (the registry is the same) detect the same atoms and trigger
\* the same molecules.
C2_SameBarSameAtoms ==
  [][ (scan.on /\ scan'.on /\ scan.bar = scan'.bar)
        => /\ SetOf(scan'.detected) = SetOf(scan.detected)
           /\ { scan'.fired[j].mol : j \in 1..Len(scan'.fired) } = FiredMols ]_vars

\* C3: at threshold 100 a molecule triggers only when every one of its
\* required atoms was detected; so one requiring three atoms never triggers
\* on fewer than three.
C3_FullCoverageAt100 ==
  scan.on =>
    \A k \in FiredMols :
      molecules[k].threshold = 100 => Required(molecules[k]) \subseteq SetOf(scan.detected)

\* a molecule of three required atoms at threshold 100 met two of them and did not trigger
C3_Witness ==
  /\ scan.on
  /\ \E k \in MolIndex :
       /\ molecules[k].threshold = 100
       /\ Cardinality(Required(molecules[k])) = 3
       /\ Cardinality(Present(molecules[k], scan.detected)) = 2
       /\ k \notin FiredMols

\* a molecule of two distinct required atoms at threshold 50
IsHalfOfTwo(mol) ==
  /\ mol.threshold = 50
  /\ Len(mol.atoms) = 2
  /\ Cardinality(Required(mol)) = 2

\* C4: a molecule requiring {A,B} at threshold 50 triggers when exactly one
\* of A, B was detected, its matched atoms being that one atom, and does not
\* trigger when neither was.
C4_HalfIsInclusive ==
  scan.on =>
    \A k \in MolIndex :
      IsHalfOfTwo(molecules[k]) =>
        /\ Cardinality(Present(molecules[k], scan.detected)) = 1
             => \E j \in 1..Len(scan.fired) :
                  /\ scan.fired[j].mol = k
                  /\ Len(scan.fired[j].match) = 1
                  /\ SetOf(scan.fired[j].match) = Present(molecules[k], scan.detected)
        /\ Present(molecules[k], scan.detected) = {} => k \notin FiredMols

\* such a molecule triggered on exactly one of its two atoms
C4_Witness ==
  /\ scan.on
  /\ \E k \in FiredMols :
       /\ IsHalfOfTwo(molecules[k])
       /\ Cardinality(Present(molecules[k], scan.detected)) = 1

\* C5: what is detected and triggered for a ticker rests on that ticker's
\* own bar alone, whatever was detected for another ticker of the cycle: each
\* bar-decided atom is in the ticker's detected list exactly when its own bar
\* meets the atom's condition, no atom is listed twice, and the molecules
\* triggered are those the ticker's own detected list satisfies.
C5_WindowIndependence ==
  scan.on =>
    /\ Includes(scan.detected, <<"TRG-008">>) <=> scan.bar.c > scan.bar.o
    /\ Includes(scan.detected, <<"TRG-003">>) <=> scan.bar.v > 50000
    /\ Cardinality(SetOf(scan.detected)) = Len(scan.detected)
    /\ FiredMols = { k \in MolIndex : Triggers(molecules[k], scan.detected) }

\* ticker B was evaluated with nothing detected after ticker A of the same
\* watchlist had triggered a molecule
C5_Witness ==
  /\ scan.on
  /\ scan.sym = <<"B">>
  /\ scan.detected = <<>>
  /\ watchlist = << <<"A">>, <<"B">> >>
  /\ \E i \in 1..Len(predictions) : predictions[i].ticker = <<"A">>

AtomIds == { atoms[i].id : i \in 1..Len(atoms) }

\* C6: a load whose molecule table references an atom ID that the loaded
\* atom table lacks does not report success and registers no such molecule:
\* after a load that reported success and with no load in flight, every atom
\* ID of every registered molecule is in the atom table.
C6_LoadedReferencesKnown ==
  (loadMsg = "loaded" /\ loading = [a |-> 0, m |-> 0])
    => \A k \in MolIndex : Required(molecules[k]) \subseteq AtomIds

\* C7: a loop body that detected no atom triggers no molecule.
C7_EmptyWindowNoTrigger ==
  (scan.on /\ scan.detected = <<>>) => scan.fired = <<>>

\* C8: every registered molecule has a threshold t with 0 < t <= 100.
C8_ThresholdInRange ==
  \A k \in MolIndex : 0 < molecules[k].threshold /\ molecules[k].threshold <= 100

\* a molecule as the specification admits it: atoms distinct and at least
\* one, threshold in (0, 100]
WellFormed(mol) ==
  /\ mol.atoms # <<>>
  /\ Cardinality(Required(mol)) = Len(mol.atoms)
  /\ 0 < mol.threshold /\ mol.threshold <= 100

\* C9: no two records of predictions have the same id (stated for the
\* registries all of whose molecules are well formed).
C9_UniqueIds ==
  (\A k \in MolIndex : WellFormed(molecules[k]))
    => \A i, j \in 1..Len(predictions) : i # j => predictions[i].id # predictions[j].id

\* the records a step appended, when predictions was only extended
Appended == SubSeq(predictions', Len(predictions) + 1, Len(predictions'))

\* C10: a loop body appends, for its ticker, exactly one record for each
\* molecule whose match condition (the one scanTick evaluates) it met and none
\* for the others; no other step appends; and every step leaves the records
\* already in the list as they were, in place.
C10_OnePerMatchAppendOnly ==
  [][ /\ Len(predictions') >= Len(predictions)
      /\ SubSeq(predictions', 1, Len(predictions)) = predictions
      /\ ~scan'.on => predictions' = predictions
      /\ scan'.on =>
           /\ \A k \in MolIndex :
                Cardinality({ j \in 1..Len(Appended) :
                                /\ Appended[j].molecule = molecules[k].id
                                /\ Appended[j].ticker = scan'.sym })
                  = IF Triggers(molecules[k], scan'.detected) THEN 1 ELSE 0
           /\ Len(Appended) = Cardinality({ k \in MolIndex : Triggers(molecules[k], scan'.detected) })
    ]_vars

\* a loop body met the condition of one molecule of two and appended its one
\* record behind a record that was in the list already
C10_Witness ==
  /\ scan.on
  /\ Len(molecules) = 2
  /\ Len(scan.fired) = 1
  /\ Len(predictions) = 2

\* whether the molecule meets the match condition on the last loop body's atoms
MeetsCondition(mol) == Triggers(mol, scan.detected)

\* C11: the records a loop body emits are the registry sequence filtered by
\* the match condition: every molecule that meets it has its record, none
\* suppressing another, and the records stand in the registry's order.
C11_AllMatchesInRegistryOrder ==
  scan.on =>
    LET want == SelectSeq(molecules, MeetsCondition)
        n == Len(want)
        last == SubSeq(predictions, Len(predictions) - n + 1, Len(predictions))
    IN  /\ Len(predictions) >= n
        /\ \A j \in 1..n : last[j].molecule = want[j].id /\ last[j].ticker = scan.sym

\* two molecules triggered in one loop body, the first of the registry with
\* the smaller matched share
C11_Witness ==
  /\ scan.on
  /\ Len(molecules) = 2
  /\ Len(scan.fired) = 2
  /\ Len(predictions) = 2
  /\ predictions[1].molecule = molecules[1].id
  /\ Cardinality(Present(molecules[1], scan.detected)) * Cardinality(Required(molecules[2]))
       < Cardinality(Present(molecules[2], scan.detected)) * Cardinality(Required(molecules[1]))

\* the registry of the scenarios: LOGIC-EXP-004 requires STR-003 and TRG-003 at 100
IsExp004Registry ==
  /\ Len(molecules) = 1
  /\ molecules[1].id = <<"LOGIC-EXP-004">>
  /\ Required(molecules[1]) = { <<"STR-003">>, <<"TRG-003">> }
  /\ molecules[1].threshold = 100

\* C12: with that registry the bar {open 100, close 105, volume 600000}
\* makes STR-003 and TRG-003 fire and LOGIC-EXP-004 trigger, one record being
\* emitted for the ticker.
C12_ScenarioBothFire ==
  (scan.on /\ IsExp004Registry /\ scan.bar = [o |-> 100, c |-> 105, v |-> 600000])
    => /\ Includes(scan.detected, <<"STR-003">>)
       /\ Includes(scan.detected, <<"TRG-003">>)
       /\ Len(scan.fired) = 1
       /\ predictions # <<>>
       /\ predictions[Len(predictions)].molecule = <<"LOGIC-EXP-004">>
       /\ predictions[Len(predictions)].ticker = scan.sym

\* C13: with that registry the bar {open 100, close 105, volume 100000}
\* makes STR-003 fire and TRG-003 not, and no record is emitted.
C13_ScenarioVolumeTooLow ==
  (scan.on /\ IsExp004Registry /\ scan.bar = [o |-> 100, c |-> 105, v |-> 100000])
    => /\ Includes(scan.detected, <<"STR-003">>)
       /\ ~Includes(scan.detected, <<"TRG-003">>)
       /\ scan.fired = <<>>
       /\ predictions = <<>>

\* C14: a reload is atomic: in every state (each is a point where other code
\* can run) the atom table and the molecule table are the two tables of one
\* load: those of the construction, those of a load that failed, or the rows
\* of one load that succeeded.
C14_RegistryFromOneLoad ==
  \/ atoms = <<>> /\ molecules = <<>>
  \/ atoms = DemoAtoms /\ molecules = DemoMolecules
  \/ /\ \E rows \in AtomTables : atoms = AtomsOfRows(rows)
     /\ \E rows \in AllMolTables : molecules = MolsOfRows(rows)

\* what a handler other than the scanTick invocation itself can observe
Outside ==
  << atoms, molecules, watchlist, predictions, scanTimer, intervals, modal, loading, loadMsg, now >>

\* C15: when the fetch of a watched ticker fails, the cycle detects nothing
\* and emits no record for that ticker, goes on to the tickers that remain,
\* and the failure is reported: the step leaves a trace outside the
\* invocation's own position in the watchlist.
C15_FetchFailureReported ==
  [][ \A k \in 1..Len(ticks) :
        (ticks' = Advance(k) /\ ~scan'.on)
          => /\ scan'.detected = <<>>
             /\ predictions' = predictions
             /\ ticks[k].i < Len(ticks[k].arr)
                  => /\ Len(ticks') = Len(ticks)
                     /\ ticks'[k].i = ticks[k].i + 1
             /\ Outside' # Outside
    ]_vars

\* C16: while the scanner is stopped (from stop-scan until the next
\* start-scan) no scan cycle starts and no loop body detects an atom or
\* emits a record, a cycle that was awaiting its fetch at the stop included.
C16_NothingAfterStop ==
  [][ (~scanTimer /\ ~scanTimer')
        => /\ Len(ticks') <= Len(ticks)
           /\ ~scan'.on
           /\ predictions' = predictions
    ]_vars

\* the invocations of scanTick in flight that await the fetch of ticker sym
WorkingOn(sym) == { k \in 1..Len(ticks) : ticks[k].arr[ticks[k].i] = sym }

\* C17: at most one invocation of scanTick is working on a given ticker.
C17_OneTaskPerTicker ==
  \A sym \in Tickers : Cardinality(WorkingOn(sym)) <= 1

\* the atoms the tests of scanTick can push for a bar
CurrentAtoms(bar) ==
  (IF bar.c > bar.o THEN { <<"TRG-008">> } ELSE {})
    \cup (IF bar.v > 50000 THEN { <<"TRG-003">> } ELSE {})
    \cup { <<"STR-003">> }

\* C18: the window of a ticker evaluation holds the current cycle only: the
\* detected list holds nothing but what the tests push for the current bar,
\* and a molecule triggers on, and reports as matched, only atoms of that
\* list, whatever an earlier cycle detected for the ticker.
C18_OnlyCurrentCycleCounts ==
  scan.on =>
    /\ SetOf(scan.detected) \subseteq CurrentAtoms(scan.bar)
    /\ \A j \in 1..Len(scan.fired) :
         LET mol == molecules[scan.fired[j].mol]
         IN  /\ SetOf(scan.fired[j].match) \subseteq SetOf(scan.detected)
             /\ Len(FilterIn(mol.atoms, scan.detected)) * 100 >= Len(mol.atoms) * mol.threshold

\* ticker A, alone on the watchlist, triggered a molecule in an earlier
\* cycle; in a later cycle nothing is detected for it and nothing triggers
C18_Witness ==
  /\ scan.on
  /\ watchlist = << <<"A">> >>
  /\ scan.sym = <<"A">>
  /\ scan.detected = <<>>
  /\ scan.fired = <<>>
  /\ molecules # <<>>
  /\ \A k \in MolIndex : WellFormed(molecules[k])
  /\ \E i \in 1..Len(predictions) : predictions[i].ticker = <<"A">>

\* C19: the detected list of a ticker evaluation holds no atom ID twice.
C19_NoAtomTwice ==
  scan.on =>
    \A i, j \in 1..Len(scan.detected) : i # j => scan.detected[i] # scan.detected[j]

\* all three tests pushed their atom
C19_Witness ==
  /\ scan.on
  /\ Len(scan.detected) = 3

\* the sets of atoms that can be detected together
DetectableSets == { SetOf(Detect(bar, rnd)) : bar \in Bars, rnd \in BOOLEAN }

\* the required atoms are a strict superset of every such set
NeverComplete(mol) ==
  \A D \in DetectableSets : D \subseteq Required(mol) /\ D # Required(mol)

GateOpen(a) == a.section = "main"

\* C21: a click on the login button with '2025' in the password input opens
\* the gate, and the gate is opened by nothing but a login click with an
\* accepted password.
C21_LoginOpensGate ==
  [][ /\ (LoginClicked /\ app.pwInput = "2025") => GateOpen(app')
      /\ (GateOpen(app') /\ ~GateOpen(app))
           => (LoginClicked /\ app.pwInput \in AcceptedPasswords)
    ]_vars

\* C22: a reconnect timeout never tears down an open connection: when one
\* fires, the socket held is not open.
C22_TimerSparesOpenSocket ==
  [][ ReconnectTimerFires => app.websocket # "OPEN" ]_vars

\* C23: isConnected is true exactly while the socket held is open, so that
\* isConnected implies that sendWebSocketMessage sends, and an open socket
\* is never marked as not connected.
C23_ConnectedIffOpen ==
  app.isConnected <=> app.websocket = "OPEN"

\* C24: reconnectAttempts stays within 0..maxReconnectAttempts; it is 0 after
\* every successful open and decreases at no other step; every reconnect
\* timeout that is set takes one of the maxReconnectAttempts counts, so that
\* without a successful open at most that many are set and then none.
C24_ReconnectBounded ==
  /\ [](app.reconnectAttempts \in 0..MaxReconnectAttempts)
  /\ [][ /\ SocketOpens => app'.reconnectAttempts = 0
         /\ app'.reconnectAttempts < app.reconnectAttempts => SocketOpens
         /\ app'.timers > app.timers
              => /\ app'.timers = app.timers + 1
                 /\ app.reconnectAttempts < MaxReconnectAttempts
                 /\ app'.reconnectAttempts = app.reconnectAttempts + 1
         /\ app.reconnectAttempts = MaxReconnectAttempts => app'.timers <= app.timers
       ]_vars

\* five reconnects were made without an open, the last socket has closed
\* and no timeout is pending: the client has stopped retrying
C24_Witness ==
  /\ app.reconnectAttempts = MaxReconnectAttempts
  /\ app.timers = 0
  /\ app.closing = 0
  /\ app.websocket = "CLOSED"
  /\ ~app.isConnected

\* C25: logBuffer holds at most maxLogEntries entries, and they are the
\* most recent ones in order of addition, the newest first; clearLogs leaves
\* nothing older than its own entry; each further addLog puts its entry in
\* front and, when the bound would be exceeded, drops the oldest one only.
C25_LogHoldsMostRecent ==
  /\ [](/\ Len(app.logBuffer) <= MaxLogEntries
        /\ \A i \in 1..Len(app.logBuffer) : app.logBuffer[i].n = app.logged - i + 1)
  /\ [][ /\ ClearLogsClicked => Len(app'.logBuffer) = 1
         /\ (app'.logged = app.logged + 1 /\ ~ClearLogsClicked)
              => /\ app'.logBuffer[1].n = app.logged + 1
                 /\ Tail(app'.logBuffer)
                      = IF Len(app.logBuffer) = MaxLogEntries
                        THEN SubSeq(app.logBuffer, 1, MaxLogEntries - 1)
                        ELSE app.logBuffer
       ]_vars

\* the buffer is full and entries older than its oldest one were added
\* after the last clearing
C25_Witness ==
  /\ Len(app.logBuffer) = MaxLogEntries
  /\ app.logBuffer[MaxLogEntries].n = 3
  /\ app.logged = MaxLogEntries + 2

\* no element of arr occurs at two positions
NoTickerTwice(arr) ==
  \A i, j \in 1..Len(arr) : arr[i] = arr[j] => i = j

\* C26: the watchlist of app.js never holds a ticker twice, whatever sequence
\* of addTicker, removeTicker and scanner_started messages has been handled,
\* and addTicker of a ticker that is present leaves the watchlist unchanged.
C26_NoTickerTwice ==
  /\ [](NoTickerTwice(app.watchlist))
  /\ [][ (AddTickerClicked
            /\ Includes(app.watchlist, ToUpperCase(Trim(app.tickerInput))))
           => app'.watchlist = app.watchlist ]_vars

\* C27: at most one polling interval runs at any time, the one whose handle
\* scanTimer holds: start-scan with an interval armed or with an empty
\* watchlist arms none, and after stop-scan scanTimer is null and no
\* interval is left.
C27_AtMostOneTimer ==
  /\ [](intervals = IF scanTimer THEN 1 ELSE 0)
  /\ [][ /\ (StartScan /\ (scanTimer \/ watchlist = <<>>))
              => (intervals' = intervals /\ scanTimer' = scanTimer)
         /\ StopScan => (~scanTimer' /\ intervals' = 0) ]_vars

\* an interval is armed while a cycle that it started is in flight: a further
\* start-scan finds the timer active, a stop-scan finds it to clear
C27_Witness ==
  /\ scanTimer
  /\ intervals = 1
  /\ ticks # <<>>

\* C28: every atom detection and every molecule signal of scanTick is for a
\* ticker that is in the watchlist when it is emitted, a ticker that was
\* removed while the cycle awaited a fetch included; an interval that fires
\* on an empty watchlist starts no cycle.
C28_SignalsOnlyForWatched ==
  /\ []((scan.on /\ (scan.detected # <<>> \/ scan.fired # <<>>))
          => Includes(watchlist, scan.sym))
  /\ [][ (TimerFires /\ watchlist = <<>>) => (ticks' = ticks /\ ~scan'.on) ]_vars

\* the three conditions under which startScanner sends
MayStart(a) == a.isConnected /\ a.systemInitialized /\ a.watchlist # <<>>

\* C29: startScanner sends start_scanner only in a state where isConnected
\* and systemInitialized are true and the watchlist is not empty, and sends
\* nothing in any other state; no other handler sends start_scanner;
\* startScanner and stopScanner leave isScanning as it is, and isScanning
\* changes only in the handling of a scanner_started, scanner_stopped or
\* system_status message.
C29_StartOnlyWhenReady ==
  [][ /\ app'.sent = "start_scanner" => (StartScannerClicked /\ MayStart(app))
      /\ (StartScannerClicked /\ ~MayStart(app)) => app'.sent = "none"
      /\ (StartScannerClicked \/ StopScannerClicked) => app'.isScanning = app.isScanning
      /\ app'.isScanning # app.isScanning
           => app'.handled \in {"scanner_started", "scanner_stopped", "system_status"}
    ]_vars

\* start_scanner has just been sent, by a client whose scanner the server
\* had not reported as running
C29_Witness ==
  /\ app.sent = "start_scanner"
  /\ MayStart(app)
  /\ ~app.isScanning

\* the fields of the client state that the claim on unknown messages names
ClientState(a) ==
  << a.isConnected, a.isScanning, a.systemInitialized, a.watchlist,
     a.atomsDetected, a.moleculesTriggered, a.logBuffer >>

\* C30: the handling of a message whose type is none of the known types
\* leaves isConnected, isScanning, systemInitialized, watchlist,
\* atomsDetected, moleculesTriggered and logBuffer as they are; atomsDetected
\* grows by exactly one in the handling of an atom_signal message and
\* moleculesTriggered by exactly one in that of a molecule_signal message,
\* and neither changes in any other step.
C30_UnknownTypeChangesNothing ==
  [][ /\ \A data \in ServerMessages :
           MessageArrives(data)
             => /\ data.type \notin KnownTypes => ClientState(app') = ClientState(app)
                /\ app'.atomsDetected
                     = app.atomsDetected + (IF data.type = "atom_signal" THEN 1 ELSE 0)
                /\ app'.moleculesTriggered
                     = app.moleculesTriggered
                         + (IF data.type = "molecule_signal" THEN 1 ELSE 0)
      /\ app'.atomsDetected # app.atomsDetected => app'.handled = "atom_signal"
      /\ app'.moleculesTriggered # app.moleculesTriggered
           => app'.handled = "molecule_signal"
    ]_vars

\* a message of a type unknown to the client has just been handled, after
\* signals of both kinds were counted
C30_Witness ==
  /\ app.handled = "heartbeat"
  /\ app.atomsDetected = MaxSignals
  /\ app.moleculesTriggered = 1

====
